---- MODULE Spec2Model ----
(***************************************************************************)
(* A model of bot_ar.py: the debts table, the per-user user_data context   *)
(* and the on_text handler of the debt ledger bot.                         *)
(*                                                                         *)
(* A text is a sequence of glyphs.  A menu label is one glyph: the code    *)
(* only compares labels as wholes.  Amounts are whole units (the code uses *)
(* floats; rounding is outside this model).                                *)
(*                                                                         *)
(* Spec: two users, messages handled one at a time.  SpecLabels: the same, *)
(* with debtors named after menu labels.  SpecConc: add_payment's read and *)
(* write as separate steps.  SpecParse: parse_amount alone, on every short *)
(* text.                                                                   *)
(***************************************************************************)
EXTENDS Integers, Sequences, FiniteSets, TLC

\* ------------------------------------------------------------ bounds
\* The largest total a record may reach (a message that would pass it is not sent).
MaxTotal == 2

\* The longest text parse_amount is called with, when it is checked alone.
MaxTextLen == 3

\* ------------------------------------------------------------ literals
MAIN_MENU == <<"MAIN_MENU">>
ADD_NEW_NAME == <<"ADD_NEW_NAME">>
LIST_ALL == <<"LIST_ALL">>
NEW_DEBT == <<"NEW_DEBT">>
PAYMENT == <<"PAYMENT">>
STATUS == <<"STATUS">>
DELETE_PERSON == <<"DELETE_PERSON">>
BACK == <<"BACK">>

STATE_ADD_NAME == <<"add_name">>
STATE_ADD_NAME_AMOUNT == <<"add_name_amount">>
STATE_NEW_DEBT == <<"new_debt">>
STATE_PAYMENT == <<"payment">>

\* Python's None, as a value of user_data.get and of get_person.
None == <<"None">>

\* Python's truth test of a str-or-None value: None and "" are false.
Truthy(v) == v # None /\ v # << >>

\* ------------------------------------------------------------ texts
Sessions == {"u1", "u2"}

\* The messages the users send: every menu label, a label typed with spaces
\* around it, a plain name, amounts, an amount written with an exponent, a zero,
\* and a blank message.
Inputs ==
    { MAIN_MENU, ADD_NEW_NAME, LIST_ALL, NEW_DEBT, PAYMENT, STATUS,
      DELETE_PERSON, BACK, <<" ", "BACK", " ">>, <<"Ali">>, <<"1">>,
      <<" ", "ar2">>, <<"1", "e", "0">>, <<"0">>, <<" ">> }

\* The texts the users type as the name of a new debtor: a plain name, and a
\* name that is a menu label.
NameInputs == { <<"Ali">>, DELETE_PERSON }

IsSpace(g) == g = " "

RECURSIVE lstrip(_)
lstrip(t) == IF t # << >> /\ IsSpace(Head(t)) THEN lstrip(Tail(t)) ELSE t

RECURSIVE rstrip(_)
rstrip(t) ==
    IF t # << >> /\ IsSpace(t[Len(t)]) THEN rstrip(SubSeq(t, 1, Len(t) - 1)) ELSE t

\* str.strip()
strip(t) == rstrip(lstrip(t))

\* The translation table of normalize_digits: Arabic-Indic 0-9, Extended
\* Arabic-Indic 0-7, then a fullwidth 8 and the Arabic-Indic 9 again.
TableFrom ==
    << "ar0", "ar1", "ar2", "ar3", "ar4", "ar5", "ar6", "ar7", "ar8", "ar9",
       "ex0", "ex1", "ex2", "ex3", "ex4", "ex5", "ex6", "ex7", "fw8", "ar9" >>
TableTo ==
    << "0", "1", "2", "3", "4", "5", "6", "7", "8", "9",
       "0", "1", "2", "3", "4", "5", "6", "7", "8", "9" >>

\* str.maketrans keeps the last entry of a repeated key.
translate(g) ==
    IF \E i \in 1..Len(TableFrom) : TableFrom[i] = g
    THEN TableTo[CHOOSE i \in 1..Len(TableFrom) :
                    /\ TableFrom[i] = g
                    /\ \A j \in 1..Len(TableFrom) : TableFrom[j] = g => j <= i]
    ELSE g

normalize_digits(value) == [i \in 1..Len(value) |-> translate(value[i])]

\* The decimal digits float() reads: ASCII and every Unicode decimal digit,
\* which covers the glyphs the table leaves alone.
DigitGlyphs ==
    << "0", "1", "2", "3", "4", "5", "6", "7", "8", "9" >>
OtherDigits == [ex8 |-> 8, ex9 |-> 9]

IsDigit(g) ==
    \/ \E i \in 1..10 : DigitGlyphs[i] = g
    \/ g \in DOMAIN OtherDigits

DigitValue(g) ==
    IF g \in DOMAIN OtherDigits THEN OtherDigits[g]
    ELSE (CHOOSE i \in 1..10 : DigitGlyphs[i] = g) - 1

RECURSIVE DecimalValue(_)
DecimalValue(ds) ==
    IF ds = << >> THEN 0
    ELSE 10 * DecimalValue(SubSeq(ds, 1, Len(ds) - 1)) + DigitValue(ds[Len(ds)])

\* What float() returns: ok = FALSE stands for ValueError; a finite number is
\* value * 10^exp, with value a signed integer; inf carries its sign in value.
Number(kind, value, exp) == [ok |-> TRUE, kind |-> kind, value |-> value, exp |-> exp]
ValueError == [ok |-> FALSE, kind |-> "none", value |-> 0, exp |-> 0]

\* An underscore of a numeric literal stands between two digits.
UnderscoresOk(t) ==
    \A i \in 1..Len(t) :
        t[i] = "_" => /\ 1 < i /\ i < Len(t)
                      /\ IsDigit(t[i - 1]) /\ IsDigit(t[i + 1])

WithoutUnderscores(t) == SelectSeq(t, LAMBDA g : g # "_")

AllDigits(t) == \A i \in 1..Len(t) : IsDigit(t[i])

\* The places of glyph g in t.
Places(t, g) == {i \in 1..Len(t) : t[i] = g}

\* The mantissa of a decimal literal: digits with at most one point and at
\* least one digit.  The result is the digits and the number of them after the point.
Mantissa(t) ==
    LET points == Places(t, ".")
        digits == SelectSeq(t, LAMBDA g : g # ".")
    IN  IF Cardinality(points) <= 1 /\ digits # << >> /\ AllDigits(digits)
        THEN [ok |-> TRUE, digits |-> digits,
              frac |-> IF points = {} THEN 0 ELSE Len(t) - (CHOOSE i \in points : TRUE)]
        ELSE [ok |-> FALSE, digits |-> << >>, frac |-> 0]

\* The exponent part of a decimal literal, after its e: an optional sign, digits.
Exponent(t) ==
    LET signed == t # << >> /\ Head(t) \in {"+", "-"}
        ds == IF signed THEN Tail(t) ELSE t
    IN  IF ds # << >> /\ AllDigits(ds)
        THEN [ok |-> TRUE,
              value |-> IF signed /\ Head(t) = "-" THEN 0 - DecimalValue(ds)
                        ELSE DecimalValue(ds)]
        ELSE [ok |-> FALSE, value |-> 0]

\* float(s): blanks around the text, an optional sign, then inf, infinity, nan
\* or a decimal literal: digits with an optional point, an optional exponent,
\* underscores between digits.  The range of the exponent (overflow to inf,
\* underflow to 0) needs longer texts than the model holds and is left out.
Float(s) ==
    LET t == strip(s)
        signed == t # << >> /\ Head(t) \in {"+", "-"}
        neg == signed /\ Head(t) = "-"
        body == IF signed THEN Tail(t) ELSE t
        plain == WithoutUnderscores(body)
        es == Places(plain, "e")
        at == IF es = {} THEN Len(plain) + 1 ELSE CHOOSE i \in es : TRUE
        mant == Mantissa(SubSeq(plain, 1, at - 1))
        expo == IF es = {} THEN [ok |-> TRUE, value |-> 0]
                ELSE Exponent(SubSeq(plain, at + 1, Len(plain)))
        m == DecimalValue(mant.digits)
    IN  IF body \in {<<"i", "n", "f">>, <<"i", "n", "f", "i", "n", "i", "t", "y">>}
        THEN Number("inf", IF neg THEN -1 ELSE 1, 0)
        ELSE IF body = <<"n", "a", "n">> THEN Number("nan", 0, 0)
        ELSE IF /\ UnderscoresOk(body)
                /\ Cardinality(es) <= 1
                /\ mant.ok
                /\ expo.ok
        THEN Number("finite", IF neg THEN 0 - m ELSE m, expo.value - mant.frac)
        ELSE ValueError

\* amount <= 0, on a float: nan compares false with everything.
NotPositive(f) ==
    CASE f.kind = "nan" -> FALSE
      [] f.kind = "inf" -> f.value < 0
      [] OTHER -> f.value <= 0

\* parse_amount: ok = FALSE stands for the None it returns.  The ledger of this
\* model takes value as the amount: the messages it is sent hold whole amounts.
parse_amount(text) ==
    LET f == Float(normalize_digits(strip(text)))
    IN  IF ~f.ok THEN ValueError
        ELSE IF NotPositive(f) THEN ValueError
        ELSE f

\* ------------------------------------------------------------ state
VARIABLES
    debts,      \* the debts table: name -> [total, paid]
    user_data,  \* context.user_data of each session
    out,        \* the reply to the message handled last
    pc,         \* where each session's handler stands
    local,      \* add_payment's local variables, between its read and its write
    arg,        \* the text parse_amount is called with, when it is checked alone
    ret         \* what that call returned

vars == <<debts, user_data, out, pc, local, arg, ret>>

\* user_data.clear(): every key reads as None afterwards.
Cleared == [pending |-> None, selected_name |-> None, draft_name |-> None]

\* A reply: the message sent and the amount it reports (-1: it reports none),
\* with the session it went to and the pending step the message was handled in.
Reply(msg, n) == [msg |-> msg, remaining |-> n, sid |-> "", at |-> None]

\* The reply r of session s's handler, which found user_data c.
Sent(r, s, c) == [r EXCEPT !.sid = s, !.at = c.pending]

\* parse_amount not called yet.
NotCalled == [ok |-> FALSE, kind |-> "uncalled", value |-> 0, exp |-> 0]

NoLocal == [name |-> None, amount |-> 0, total |-> 0, new_paid |-> 0]

\* ------------------------------------------------------------ ledger
get_names(d) == DOMAIN d

\* found = FALSE stands for None.
get_person(d, name) ==
    IF name \in DOMAIN d
    THEN [found |-> TRUE, total |-> d[name].total, paid |-> d[name].paid]
    ELSE [found |-> FALSE, total |-> 0, paid |-> 0]

\* A changed add_new_person: INSERT OR REPLACE, with no test for the name.
add_new_person_replace(d, name, amount) ==
    [ok |-> name \notin DOMAIN d,
     debts |-> [n \in DOMAIN d \cup {name} |->
                   IF n = name THEN [total |-> amount, paid |-> 0] ELSE d[n]]]

add_new_person(d, name, amount) ==
    IF name \in DOMAIN d
    THEN [ok |-> FALSE, debts |-> d]
    ELSE [ok |-> TRUE,
          debts |-> [n \in DOMAIN d \cup {name} |->
                        IF n = name THEN [total |-> amount, paid |-> 0] ELSE d[n]]]

\* UPDATE ... WHERE name = ?: no row, no change, no error.
\* A changed increase_debt: the UPDATE has no WHERE clause.
increase_debt_all_rows(d, name, amount) ==
    [n \in DOMAIN d |-> [d[n] EXCEPT !.total = d[n].total + amount]]

\* UPDATE debts SET total = total + ? WHERE name = ?
increase_debt(d, name, amount) ==
    [n \in DOMAIN d |->
        IF n = name THEN [d[n] EXCEPT !.total = d[n].total + amount] ELSE d[n]]

\* A changed add_payment: the test new_paid > total is missing.
add_payment_read_no_limit(d, name, amount) ==
    LET person == get_person(d, name)
        new_paid == person.paid + amount
    IN  IF ~person.found
        THEN [write |-> FALSE, remaining |-> 0, total |-> 0, new_paid |-> 0]
        ELSE [write |-> TRUE, remaining |-> person.total - new_paid,
              total |-> person.total, new_paid |-> new_paid]

\* add_payment up to its write: the read of the row and the two early returns.
add_payment_read(d, name, amount) ==
    LET person == get_person(d, name)
        new_paid == person.paid + amount
    IN  IF ~person.found
        THEN [write |-> FALSE, remaining |-> 0, total |-> 0, new_paid |-> 0]
        ELSE IF new_paid > person.total
        THEN [write |-> FALSE, remaining |-> person.total - person.paid,
              total |-> person.total, new_paid |-> new_paid]
        ELSE [write |-> TRUE, remaining |-> person.total - new_paid,
              total |-> person.total, new_paid |-> new_paid]

\* A changed UPDATE: the WHERE clause is missing.
add_payment_write_all_rows(d, name, new_paid) ==
    [n \in DOMAIN d |-> [d[n] EXCEPT !.paid = new_paid]]

\* add_payment's UPDATE debts SET paid = ? WHERE name = ?
add_payment_write(d, name, new_paid) ==
    [n \in DOMAIN d |-> IF n = name THEN [d[n] EXCEPT !.paid = new_paid] ELSE d[n]]

\* A changed add_payment: an overpayment settles the row up to its total and
\* is still reported as refused.
add_payment_settles(d, name, amount) ==
    LET r == add_payment_read(d, name, amount)
    IN  IF r.write
        THEN [ok |-> TRUE, remaining |-> r.remaining,
              debts |-> add_payment_write(d, name, r.new_paid)]
        ELSE [ok |-> FALSE, remaining |-> r.remaining,
              debts |-> add_payment_write(d, name, r.total)]

\* add_payment with nothing running between its read and its write.
add_payment(d, name, amount) ==
    LET r == add_payment_read(d, name, amount)
    IN  IF r.write
        THEN [ok |-> TRUE, remaining |-> r.remaining,
              debts |-> add_payment_write(d, name, r.new_paid)]
        ELSE [ok |-> FALSE, remaining |-> r.remaining, debts |-> d]

delete_person(d, name) ==
    [ok |-> name \in DOMAIN d,
     debts |-> [n \in DOMAIN d \ {name} |-> d[n]]]

\* ------------------------------------------------------------ handler
\* What one run of on_text leaves: the table, the session's user_data, the reply.
Result(d, c, msg, n) == [debts |-> d, ctx |-> c, out |-> Reply(msg, n)]

\* A changed name step: it takes the text as it comes, empty or not.
on_add_name_takes_any(d, c, text) ==
    Result(d, [c EXCEPT !.pending = STATE_ADD_NAME_AMOUNT, !.draft_name = text],
           "ask_amount", -1)

\* on_text, lines 153-161: pending == STATE_ADD_NAME.
on_add_name(d, c, text) ==
    IF ~Truthy(text) THEN Result(d, c, "bad_name", -1)
    ELSE Result(d, [c EXCEPT !.pending = STATE_ADD_NAME_AMOUNT, !.draft_name = text],
                "ask_amount", -1)

\* A changed creation step: a name that exists already ends the step and keeps
\* the rest of the session.
on_add_name_amount_keeps_draft(d, c, text) ==
    LET amount == parse_amount(text)
        name == c.draft_name
        created == add_new_person(d, name, amount.value)
    IN  IF ~amount.ok THEN Result(d, c, "bad_amount", -1)
        ELSE IF ~Truthy(name) THEN Result(d, Cleared, "main_menu", -1)
        ELSE IF ~created.ok
        THEN Result(created.debts, [c EXCEPT !.pending = None], "already_exists", -1)
        ELSE Result(created.debts, Cleared, "created", -1)

\* on_text, lines 162-182: pending == STATE_ADD_NAME_AMOUNT.
on_add_name_amount(d, c, text) ==
    LET amount == parse_amount(text)
        name == c.draft_name
        created == add_new_person(d, name, amount.value)
    IN  IF ~amount.ok THEN Result(d, c, "bad_amount", -1)
        ELSE IF ~Truthy(name) THEN Result(d, Cleared, "main_menu", -1)
        ELSE IF ~created.ok THEN Result(created.debts, Cleared, "already_exists", -1)
        ELSE Result(created.debts, Cleared, "created", -1)

\* on_text, lines 183-198: pending == STATE_NEW_DEBT and selected_name.
on_new_debt(d, c, text) ==
    LET amount == parse_amount(text)
        after == increase_debt(d, c.selected_name, amount.value)
        person == get_person(after, c.selected_name)
    IN  IF ~amount.ok THEN Result(d, c, "bad_amount", -1)
        ELSE Result(after, [c EXCEPT !.pending = None], "debt_added",
                    person.total - person.paid)

\* on_text, lines 199-219: pending == STATE_PAYMENT and selected_name.
on_payment(d, c, text) ==
    LET amount == parse_amount(text)
        paid == add_payment(d, c.selected_name, amount.value)
    IN  IF ~amount.ok THEN Result(d, c, "bad_amount", -1)
        ELSE IF ~paid.ok THEN Result(paid.debts, c, "cannot_pay", paid.remaining)
        ELSE Result(paid.debts, [c EXCEPT !.pending = None], "paid", paid.remaining)

\* A changed add-new-name trigger: it opens the name step and keeps the rest.
on_add_new_name_keeps_selection(d, c) ==
    Result(d, [c EXCEPT !.pending = STATE_ADD_NAME], "ask_name", -1)

\* on_text, lines 232-236: text == ADD_NEW_NAME.
on_add_new_name(d, c) ==
    Result(d, [Cleared EXCEPT !.pending = STATE_ADD_NAME], "ask_name", -1)

\* on_text, lines 220-305: no pending step took the message.
on_menu(d, c, text) ==
    LET selected_name == c.selected_name
        person == get_person(d, selected_name)
        deleted == delete_person(d, selected_name)
    IN  IF text = MAIN_MENU
        THEN Result(d, c, IF get_names(d) = {} THEN "list_empty" ELSE "choose_name", -1)
        ELSE IF text = ADD_NEW_NAME
        THEN on_add_new_name(d, c)
        ELSE IF text = LIST_ALL
        THEN Result(d, c, IF d = << >> THEN "no_debts" ELSE "all", -1)
        ELSE IF text \in get_names(d)
        THEN Result(d, [c EXCEPT !.selected_name = text, !.pending = None],
                    "selected", -1)
        ELSE IF text = NEW_DEBT
        THEN IF ~Truthy(selected_name) THEN Result(d, c, "select_first", -1)
             ELSE Result(d, [c EXCEPT !.pending = STATE_NEW_DEBT], "ask_debt", -1)
        ELSE IF text = PAYMENT
        THEN IF ~Truthy(selected_name) THEN Result(d, c, "select_first", -1)
             ELSE Result(d, [c EXCEPT !.pending = STATE_PAYMENT], "ask_payment", -1)
        ELSE IF text = STATUS
        THEN IF ~Truthy(selected_name) THEN Result(d, c, "select_first", -1)
             ELSE IF ~person.found THEN Result(d, c, "not_found", -1)
             ELSE Result(d, c, "status", person.total - person.paid)
        ELSE IF text = DELETE_PERSON
        THEN IF ~Truthy(selected_name) THEN Result(d, c, "select_first", -1)
             ELSE IF deleted.ok THEN Result(deleted.debts, Cleared, "deleted", -1)
             ELSE Result(deleted.debts, c, "not_found", -1)
        ELSE Result(d, c, "not_understood", -1)

\* A changed back step: it resets the pending step and keeps the rest.
on_back_keeps_selection(d, c) ==
    Result(d, [c EXCEPT !.pending = None], "main_menu", -1)

\* on_text, lines 147-150: text == BACK.
on_back(d, c) == Result(d, Cleared, "main_menu", -1)

\* on_text: the table d, the session's user_data c, the message as sent.
on_text(d, c, raw) ==
    LET text == strip(raw)
        pending == c.pending
        selected_name == c.selected_name
    IN  IF text = BACK THEN on_back(d, c)
        ELSE IF pending = STATE_ADD_NAME THEN on_add_name(d, c, text)
        ELSE IF pending = STATE_ADD_NAME_AMOUNT THEN on_add_name_amount(d, c, text)
        ELSE IF pending = STATE_NEW_DEBT /\ Truthy(selected_name)
        THEN on_new_debt(d, c, text)
        ELSE IF pending = STATE_PAYMENT /\ Truthy(selected_name)
        THEN on_payment(d, c, text)
        ELSE on_menu(d, c, text)

\* The message reaches add_payment with an amount (line 206).
ReachesPayment(c, raw) ==
    /\ strip(raw) # BACK
    /\ c.pending = STATE_PAYMENT
    /\ Truthy(c.selected_name)
    /\ parse_amount(strip(raw)).ok

\* The model's bound: a message whose effect would pass it is not sent.
WithinBounds(d) == \A n \in DOMAIN d : d[n].total <= MaxTotal

\* ------------------------------------------------------------ actions
Init ==
    /\ debts = << >>
    /\ user_data = [s \in Sessions |-> Cleared]
    /\ out = Reply("none", -1)
    /\ pc = [s \in Sessions |-> "idle"]
    /\ local = [s \in Sessions |-> NoLocal]
    /\ arg = << >>
    /\ ret = NotCalled

\* The /start command.
Start(s) ==
    /\ pc[s] = "idle"
    /\ user_data' = [user_data EXCEPT ![s] = Cleared]
    /\ out' = Sent(Reply("start", -1), s, user_data[s])
    /\ UNCHANGED <<debts, pc, local, arg, ret>>

\* One text message of session s, handled to its end.
OnText(s, raw) ==
    /\ pc[s] = "idle"
    /\ \E r \in {on_text(debts, user_data[s], raw)} :
          /\ WithinBounds(r.debts)
          /\ debts' = r.debts
          /\ user_data' = [user_data EXCEPT ![s] = r.ctx]
          /\ out' = Sent(r.out, s, user_data[s])
    /\ UNCHANGED <<pc, local, arg, ret>>

\* Session s sends raw; while it is asked for a new name it types one of NameInputs,
\* a blank or the back label.
Send(s, raw) ==
    /\ user_data[s].pending = STATE_ADD_NAME =>
          strip(raw) \in NameInputs \cup {<< >>, BACK}
    /\ OnText(s, raw)

Next == \E s \in Sessions : Start(s) \/ \E raw \in Inputs : Send(s, raw)

Spec == Init /\ [][Next]_vars

\* ------------------------------------------------------------ debtors named as labels
\* The same bot with users who name their debtors after menu labels: the text
\* taken as a new name is one of LabelNames.
LabelNames == { LIST_ALL, NEW_DEBT, STATUS }

SendLabel(s, raw) ==
    /\ user_data[s].pending = STATE_ADD_NAME =>
          strip(raw) \in LabelNames \cup {<< >>, BACK}
    /\ OnText(s, raw)

NextLabels == \E s \in Sessions : Start(s) \/ \E raw \in Inputs : SendLabel(s, raw)

SpecLabels == Init /\ [][NextLabels]_vars

\* ------------------------------------------------------------ concurrent handlers
\* Handlers of different sessions running at once over the shared table.  Every
\* ledger function but add_payment is one SQL statement; add_payment reads the
\* row with get_person (line 83) and writes paid later, on a connection of its
\* own (lines 92-94), and the handlers of other sessions run in between.

\* add_payment's read, for a message that reaches it.  An early return ends the
\* handler at once; otherwise the handler stands before the write.
PayRead(s, raw) ==
    /\ pc[s] = "idle"
    /\ ReachesPayment(user_data[s], raw)
    /\ \E amount \in {parse_amount(strip(raw)).value} :
       \E r \in {add_payment_read(debts, user_data[s].selected_name, amount)} :
          IF r.write
          THEN /\ pc' = [pc EXCEPT ![s] = "pay_write"]
               /\ local' = [local EXCEPT ![s] =
                               [name |-> user_data[s].selected_name, amount |-> amount,
                                total |-> r.total, new_paid |-> r.new_paid]]
               /\ UNCHANGED <<debts, user_data, out>>
          ELSE /\ out' = Sent(Reply("cannot_pay", r.remaining), s, user_data[s])
               /\ UNCHANGED <<debts, user_data, pc, local>>
    /\ UNCHANGED <<arg, ret>>

\* add_payment's write and the rest of the handler (lines 92-95, 214-219).
PayWrite(s) ==
    /\ pc[s] = "pay_write"
    /\ debts' = add_payment_write(debts, local[s].name, local[s].new_paid)
    /\ out' = Sent(Reply("paid", local[s].total - local[s].new_paid), s, user_data[s])
    /\ user_data' = [user_data EXCEPT ![s].pending = None]
    /\ pc' = [pc EXCEPT ![s] = "idle"]
    /\ local' = [local EXCEPT ![s] = NoLocal]
    /\ UNCHANGED <<arg, ret>>

\* Any other message: its handler holds no read-then-write of its own.
SendOther(s, raw) ==
    /\ ~ReachesPayment(user_data[s], raw)
    /\ Send(s, raw)

NextConc ==
    \E s \in Sessions :
        \/ Start(s)
        \/ PayWrite(s)
        \/ \E raw \in Inputs : PayRead(s, raw) \/ SendOther(s, raw)

SpecConc == Init /\ [][NextConc]_vars

\* ------------------------------------------------------------ parse_amount alone
\* The function on every text of at most MaxTextLen glyphs: blanks, digits of
\* each script, the signs of a number, and letters.
TextGlyphs ==
    { " ", "0", "1", ".", "-", "+", "e", "_", "ar2", "ex8", "fw8",
      "n", "a", "i", "f", "x" }

Texts == UNION { [1..n -> TextGlyphs] : n \in 0..MaxTextLen }

InitParse ==
    /\ arg \in Texts
    /\ ret = NotCalled
    /\ debts = << >>
    /\ user_data = [s \in Sessions |-> Cleared]
    /\ out = Reply("none", -1)
    /\ pc = [s \in Sessions |-> "idle"]
    /\ local = [s \in Sessions |-> NoLocal]

CallParseAmount ==
    /\ ret = NotCalled
    /\ ret' = parse_amount(arg)
    /\ UNCHANGED <<debts, user_data, out, pc, local, arg>>

NextParse == CallParseAmount

SpecParse == InitParse /\ [][NextParse]_vars

TypeOK ==
    /\ \A s \in Sessions : pc[s] \in {"idle", "pay_write"}

\* ------------------------------------------------------------ properties
\* The selected name of session s and the amount a message holds.
Sel(s) == user_data[s].selected_name
AmountOf == [raw \in Inputs |-> parse_amount(strip(raw))]
Amount(raw) == AmountOf[raw]

\* The messages that are the back literal, those that are the delete trigger, and
\* those that hold a valid amount.
BackInputs == {raw \in Inputs : strip(raw) = BACK}
DeleteInputs == {raw \in Inputs : strip(raw) = DELETE_PERSON}
AmountInputs == {raw \in Inputs : strip(raw) # BACK /\ Amount(raw).ok}

\* C1: with every message handled to its end before the next one starts, every
\* stored record has 0 <= paid <= total.
C1_PaidWithinTotal ==
    \A n \in DOMAIN debts : 0 <= debts[n].paid /\ debts[n].paid <= debts[n].total

\* A record paid in full, after a further payment on it was refused.
C1_Witness ==
    /\ out.msg = "cannot_pay"
    /\ Sel(out.sid) \in DOMAIN debts
    /\ debts[Sel(out.sid)].paid = debts[Sel(out.sid)].total
    /\ debts[Sel(out.sid)].paid > 0

\* C2: with add_payment's read and write as separate steps and the handlers of
\* other sessions running in between, no record has paid > total.
C2_ConcurrentPaidWithinTotal ==
    \A n \in DOMAIN debts : ~(debts[n].paid > debts[n].total)

\* C3: a payment that reports success adds exactly its amount to the paid of the
\* record as it stands at the write, so that the final paid is the initial paid
\* plus the amounts of the payments reported as applied.
C3_NoAcceptedPaymentLost ==
    [][\A s \in Sessions :
          (PayWrite(s) /\ local[s].name \in DOMAIN debts)
          => debts'[local[s].name].paid = debts[local[s].name].paid + local[s].amount]_vars

C5_PaymentClearsPending ==
    [][\A s \in Sessions :
          user_data[s].pending = STATE_PAYMENT
          => \A raw \in AmountInputs :
                (ReachesPayment(user_data[s], raw) /\ OnText(s, raw))
                => user_data'[s].pending = None]_vars

\* C6: a valid amount in the new-debt step, for a selected name that has no
\* record, changes no record and is answered with not-found.
C6_IncreaseOfMissingNameNotFound ==
    [][\A s \in Sessions :
          (/\ user_data[s].pending = STATE_NEW_DEBT
           /\ Truthy(Sel(s))
           /\ Sel(s) \notin DOMAIN debts)
          => \A raw \in AmountInputs :
                OnText(s, raw)
                => /\ debts' = debts
                   /\ out'.msg = "not_found"]_vars

\* C7: a valid initial amount for a draft name that has a record is answered with
\* already-exists and leaves the table, names and rows, as it was.
C7_CreateExistingChangesNothing ==
    [][\A s \in Sessions :
          (/\ user_data[s].pending = STATE_ADD_NAME_AMOUNT
           /\ user_data[s].draft_name \in DOMAIN debts)
          => \A raw \in AmountInputs :
                OnText(s, raw)
                => /\ debts' = debts
                   /\ out'.msg = "already_exists"]_vars

\* A refused creation, of a name whose record holds a payment.
C7_Witness ==
    /\ out.msg = "already_exists"
    /\ out.at = STATE_ADD_NAME_AMOUNT
    /\ \E n \in DOMAIN debts : debts[n].paid > 0

C9_BackClearsSession ==
    [][\A s \in Sessions, raw \in BackInputs :
          OnText(s, raw) => (user_data'[s] = Cleared /\ debts' = debts)]_vars

\* Back, sent in the payment step with a name selected and a record stored.
C9_Witness ==
    /\ out.msg = "main_menu"
    /\ out.at = STATE_PAYMENT
    /\ user_data[out.sid] = Cleared
    /\ debts # << >>

\* C10: the delete trigger, with a name n selected and no pending step, removes
\* n's record and clears the session when n has a record (a further delete of n
\* then deletes nothing), and otherwise reports not-found and changes nothing.
C10_DeleteTrigger ==
    [][\A s \in Sessions :
          (user_data[s].pending = None /\ Truthy(Sel(s)))
          => \A raw \in DeleteInputs :
                OnText(s, raw)
                => IF Sel(s) \in DOMAIN debts
                   THEN /\ debts' = [n \in DOMAIN debts \ {Sel(s)} |-> debts[n]]
                        /\ user_data'[s] = Cleared
                        /\ ~delete_person(debts', Sel(s)).ok
                   ELSE /\ debts' = debts
                        /\ user_data'[s] = user_data[s]
                        /\ out'.msg = "not_found"]_vars


\* ---- C11
RECURSIVE Pow10(_)
Pow10(n) == IF n <= 0 THEN 1 ELSE 10 * Pow10(n - 1)

\* value * 10^exp of two numbers, compared over their common exponent.
SameValue(f, g) ==
    LET lo == IF f.exp < g.exp THEN f.exp ELSE g.exp
    IN  f.value * Pow10(f.exp - lo) = g.value * Pow10(g.exp - lo)

\* The digits the claim names: ASCII, Arabic-Indic and Extended Arabic-Indic.
ClaimDigits ==
    { DigitGlyphs[i] : i \in 1..10 }
    \cup { "ar0", "ar1", "ar2", "ar3", "ar4", "ar5", "ar6", "ar7", "ar8", "ar9" }
    \cup { "ex0", "ex1", "ex2", "ex3", "ex4", "ex5", "ex6", "ex7", "ex8", "ex9" }

\* The number the claim reads in a text: trimmed, a string of those digits with
\* at most one decimal separator.
ClaimNumber(text) ==
    LET t == strip(text)
        ds == SelectSeq(t, LAMBDA g : g # ".")
    IN  IF /\ ds # << >>
           /\ \A i \in 1..Len(ds) : ds[i] \in ClaimDigits
           /\ Cardinality(Places(t, ".")) <= 1
        THEN Number("finite", DecimalValue(normalize_digits(ds)),
                    IF Places(t, ".") = {} THEN 0
                    ELSE (CHOOSE i \in Places(t, ".") : TRUE) - Len(t))
        ELSE ValueError

\* C11: parse_amount accepts a text exactly when, trimmed and with its
\* Arabic-Indic and Extended Arabic-Indic digits read as ASCII digits, it is a
\* string of digits with at most one decimal separator and a value above 0, and
\* it returns that value; every other text is rejected.
C11_ParserAcceptsExactlyDecimals ==
    ret # NotCalled =>
        LET want == ClaimNumber(arg)
        IN  /\ ret.ok <=> (want.ok /\ want.value > 0)
            /\ ret.ok => ret.kind = "finite" /\ SameValue(ret, want)

\* ---- C12
\* C12: a valid amount sent while the initial amount of a new debtor is awaited
\* leaves the session with no pending step, no selected name and no draft name,
\* whether the record is created or the name exists already; when it is created
\* the table gains the record (draft name, total = amount, paid = 0) and no other
\* record changes.
C12_CreationClearsSession ==
    [][\A s \in Sessions :
          user_data[s].pending = STATE_ADD_NAME_AMOUNT
          => \A raw \in AmountInputs :
                OnText(s, raw)
                => /\ user_data'[s] = Cleared
                   /\ LET name == user_data[s].draft_name
                      IN  IF name \in DOMAIN debts
                          THEN out'.msg = "already_exists" /\ debts' = debts
                          ELSE /\ out'.msg = "created"
                               /\ DOMAIN debts' = DOMAIN debts \cup {name}
                               /\ debts'[name] = [total |-> Amount(raw).value, paid |-> 0]
                               /\ \A n \in DOMAIN debts : debts'[n] = debts[n]]_vars

\* A record created next to another one, by a session that held a draft name.
C12_Witness ==
    /\ out.msg = "created"
    /\ out.at = STATE_ADD_NAME_AMOUNT
    /\ user_data[out.sid] = Cleared
    /\ Cardinality(DOMAIN debts) = 2

\* ---- C13
\* The messages that are no amount as C11 describes one, the back literal apart,
\* and the messages that are an empty name.
InvalidAmountInputs ==
    {raw \in Inputs : /\ strip(raw) # BACK
                      /\ ~(ClaimNumber(raw).ok /\ ClaimNumber(raw).value > 0)}
EmptyInputs == {raw \in Inputs : strip(raw) = << >>}

\* C13: an unparseable or non-positive amount received while an initial amount,
\* a new-debt amount or a payment amount is awaited, and an empty name received
\* while a new name is awaited, leave every record of the table and the whole
\* user_data of the session as they were.
C13_ValidationErrorChangesNothing ==
    [][\A s \in Sessions :
          /\ user_data[s].pending \in {STATE_ADD_NAME_AMOUNT, STATE_NEW_DEBT, STATE_PAYMENT}
             => \A raw \in InvalidAmountInputs :
                   OnText(s, raw) => debts' = debts /\ user_data'[s] = user_data[s]
          /\ user_data[s].pending = STATE_ADD_NAME
             => \A raw \in EmptyInputs :
                   OnText(s, raw) => debts' = debts /\ user_data'[s] = user_data[s]]_vars

\* ---- C14
\* C14: in every reachable state, a session whose pending step is the new-debt
\* amount or the payment amount has a selected name, and a session whose pending
\* step is the initial amount has a draft name that is not empty.
C14_PendingHasItsPrecondition ==
    \A s \in Sessions :
        /\ user_data[s].pending \in {STATE_NEW_DEBT, STATE_PAYMENT}
           => Truthy(user_data[s].selected_name)
        /\ user_data[s].pending = STATE_ADD_NAME_AMOUNT
           => Truthy(user_data[s].draft_name)

\* One session asked for a payment amount again after a refused payment, while
\* the other is asked for the initial amount of a new debtor.
C14_Witness ==
    /\ out.msg = "cannot_pay"
    /\ user_data[out.sid].pending = STATE_PAYMENT
    /\ \E s \in Sessions : user_data[s].pending = STATE_ADD_NAME_AMOUNT

\* ---- C15
\* C15: every step that raises the total or the paid of a record is the handling
\* of an amount sent by a session whose selected name is that record, in the
\* new-debt or the payment step; and a selected name is put into a session only
\* by a message of that session whose text is the name of a record existing at
\* that moment.  A clear empties the selected name, so the name a side effect
\* acts on was selected by an earlier message with no clear in between.
C15_SideEffectsOnSelectedName ==
    [][/\ \A n \in DOMAIN debts \cap DOMAIN debts' :
             (debts'[n].total > debts[n].total \/ debts'[n].paid > debts[n].paid)
             => \E s \in Sessions :
                   /\ Sel(s) = n
                   /\ user_data[s].pending \in {STATE_NEW_DEBT, STATE_PAYMENT}
                   /\ \E raw \in AmountInputs : OnText(s, raw)
       /\ \A s \in Sessions :
             (Sel(s)' # Sel(s) /\ Sel(s)' # None)
             => /\ Sel(s)' \in DOMAIN debts
                /\ \E raw \in Inputs : strip(raw) = Sel(s)' /\ OnText(s, raw)]_vars

\* A new debt added to a record on which a payment was applied before.
C15_Witness ==
    /\ out.msg = "debt_added"
    /\ out.at = STATE_NEW_DEBT
    /\ Sel(out.sid) \in DOMAIN debts
    /\ debts[Sel(out.sid)].paid > 0

\* ---- C16
\* C16: for every name that has a record, whatever non-empty text other than the
\* back literal it is, a session with no pending step that sends a text equal to
\* that name gets it as its selected name and keeps no pending step.
C16_ExistingNameIsSelected ==
    [][\A s \in Sessions :
          user_data[s].pending = None
          => \A raw \in Inputs :
                (strip(raw) \in DOMAIN debts /\ OnText(s, raw))
                => Sel(s)' = strip(raw) /\ user_data'[s].pending = None]_vars

\* ---- C17
\* C17: whenever a session has a selected name and no pending step, the new-debt
\* trigger moves it to the new-debt amount step and the payment trigger to the
\* payment amount step, the selected name unchanged, whatever the table holds.
C17_TriggersOpenAmountStep ==
    [][\A s \in Sessions :
          (user_data[s].pending = None /\ Truthy(Sel(s)))
          => \A raw \in Inputs :
                (strip(raw) \in {NEW_DEBT, PAYMENT} /\ OnText(s, raw))
                => /\ user_data'[s].pending =
                         IF strip(raw) = NEW_DEBT THEN STATE_NEW_DEBT ELSE STATE_PAYMENT
                   /\ Sel(s)' = Sel(s)]_vars

\* ---- C18
\* The messages that are the status, new-debt, payment or delete trigger.
ActionInputs == {raw \in Inputs : strip(raw) \in {STATUS, NEW_DEBT, PAYMENT, DELETE_PERSON}}

\* The trigger text acts on the debtor name of session s.
ActsOn(s, text, name) ==
    CASE text = STATUS ->
            /\ user_data'[s] = user_data[s]
            /\ debts' = debts
            /\ out'.msg \in {"status", "not_found"}
      [] text = NEW_DEBT ->
            /\ user_data'[s] = [user_data[s] EXCEPT !.pending = STATE_NEW_DEBT]
            /\ debts' = debts
      [] text = PAYMENT ->
            /\ user_data'[s] = [user_data[s] EXCEPT !.pending = STATE_PAYMENT]
            /\ debts' = debts
      [] OTHER ->
            /\ name \notin DOMAIN debts'
            /\ \A n \in DOMAIN debts \ {name} : n \in DOMAIN debts' /\ debts'[n] = debts[n]

\* C18: a successful debt increase and a successful payment leave the session
\* with the same selected name and no pending step; the status, new-debt, payment
\* or delete trigger the session sends next acts on that debtor; and among the
\* text messages only the back literal, the add-new-name trigger, a finished
\* creation and a successful deletion take the selected name away.
C18_SelectionKeptAfterAmount ==
    [][\A s \in Sessions :
          /\ (user_data[s].pending \in {STATE_NEW_DEBT, STATE_PAYMENT} /\ Truthy(Sel(s)))
             => \A raw \in AmountInputs :
                   (OnText(s, raw) /\ out'.msg \in {"debt_added", "paid"})
                   => Sel(s)' = Sel(s) /\ user_data'[s].pending = None
          /\ (out.sid = s /\ out.msg \in {"debt_added", "paid"})
             => \A raw \in ActionInputs :
                   OnText(s, raw) => ActsOn(s, strip(raw), Sel(s))
          /\ (Truthy(Sel(s)) /\ Sel(s)' = None /\ out'.sid = s /\ out'.msg # "start")
             => out'.msg \in {"main_menu", "ask_name", "created", "already_exists",
                              "deleted"}]_vars

\* ---- C19
\* A text that is no label and no name of a record.
Unmatched(text) ==
    /\ text \notin {MAIN_MENU, ADD_NEW_NAME, LIST_ALL, NEW_DEBT, PAYMENT, STATUS,
                    DELETE_PERSON, BACK}
    /\ text \notin DOMAIN debts

\* C19: with no pending step, the status trigger, the main-menu trigger, the
\* list-all trigger and any unmatched text change no record of the table and
\* leave pending, selected name and draft name as they were, also when the
\* selected name has no record any more.
C19_ReadOnlyTriggers ==
    [][\A s \in Sessions :
          user_data[s].pending = None
          => \A raw \in Inputs :
                (/\ strip(raw) \in {STATUS, MAIN_MENU, LIST_ALL} \/ Unmatched(strip(raw))
                 /\ OnText(s, raw))
                => debts' = debts /\ user_data'[s] = user_data[s]]_vars

\* ---- C20
\* C20: in every reachable state, a session that holds a draft name has the
\* initial amount as its pending step and holds no selected name.
C20_DraftOnlyInCreation ==
    \A s \in Sessions :
        user_data[s].draft_name # None
        => /\ user_data[s].pending = STATE_ADD_NAME_AMOUNT
           /\ user_data[s].selected_name = None

\* A session still holding its draft name after an amount of it was refused,
\* while the other session holds a selected name.
C20_Witness ==
    /\ out.msg = "bad_amount"
    /\ user_data[out.sid].draft_name # None
    /\ \E s \in Sessions : Truthy(Sel(s))
====
